---- MODULE Spec2Model ----
(***************************************************************************)
(* Model of the training orchestration of raj4/deeplearning:               *)
(*   - the early-stopping / checkpoint logic of the 2D scripts             *)
(*     (stop_early, save_weights and the __main__ training loop of         *)
(*     texting_driving/code/2d_cnn_lasagne.py; sdc/code/sdc_2dcnn.py       *)
(*     repeats stop_early and the loop verbatim),                          *)
(*   - EarlyStopping.__call__ of texting_driving/code/3d_cnn.py,           *)
(*   - the augmenting batch samplers: iterate_minibatches (2D scripts)     *)
(*     and FlipBatchIterator.transform (3D script).                        *)
(*                                                                         *)
(* Two specifications share the variables:                                 *)
(*   Spec       the per-epoch controller (2D loop or EarlyStopping),       *)
(*   SpecBatch  the batch sampler (iterate_minibatches or transform).      *)
(* The variable `script` says which script runs; the variables of the      *)
(* other script, and of the other component, keep their initial values.    *)
(*                                                                         *)
(* Scaling.  The loops of the source run 8000 / 10000 epochs with          *)
(* patience 200 and a save interval of 100; the samplers run with batch    *)
(* sizes 16 and 32.  patience, multiple and batchsize are parameters of    *)
(* the functions modelled here, and the model draws them from small        *)
(* ranges; the number of epochs is capped by NumEpochs.                    *)
(***************************************************************************)
EXTENDS Integers, Sequences, FiniteSets, TLC

\* ---------------------------------------------------------------- bounds
NumEpochs == 5     \* cap on range(num_epochs) / max_epochs
MaxMetric == 3     \* accuracies and losses are drawn from 0..MaxMetric
MaxPatience == 2   \* patience is drawn from 1..MaxPatience
MaxMultiple == 3   \* multiple (save interval) is drawn from 1..MaxMultiple
MaxN == 6          \* datasets hold 0..MaxN samples
MaxBatch == 6      \* batch sizes are drawn from -1..MaxBatch
MaxShuffleN == 3   \* shuffle=True is drawn for datasets of at most MaxShuffleN samples

\* ------------------------------------------------------- program constants
DumpEvery == 20    \* 3d_cnn.py: if self.num_epochs % 20 == 0

VARIABLES
  script,                      \* "2d" (2d_cnn_lasagne.py, sdc_2dcnn.py) or "3d" (3d_cnn.py)
  \* --- controller, both scripts
  pc,                          \* "training", "stopped" (early stop), "done" (epochs exhausted);
                               \* "idle" under SpecBatch
  patience,                    \* stop_early(patience=...) / EarlyStopping(patience=...)
  \* --- 2D training loop
  multiple,                    \* save_weights(multiple=...)
  epoch,                       \* loop variable of `for epoch in range(num_epochs)`
  val_acc,                     \* validation accuracy of the current epoch
  epoch_accuracies,            \* list of accuracies of the completed epochs
  best_network_weights_epoch,
  files,                       \* files in the weights directory
  promoted,                    \* files in the models directory
  os_error,                    \* os.rename raised (source file missing)
  \* --- EarlyStopping (3D)
  train_history,               \* nolearn's train_history: records [epoch, valid_loss]
  best_valid,
  best_valid_epoch,
  best_weights,                \* <<>> is None, <<e>> the parameter values of epoch e
  num_epochs,
  dumped,                      \* periodic pickle dumps, by self.num_epochs
  loaded,                      \* parameters loaded by nn.load_params_from; <<>> if none
  \* --- batch sampler
  inputs,                      \* the caller's dataset array
  inputs0,                     \* history variable: the dataset as it was passed in
  batchsize,
  shuffle,
  view,                        \* 3D: the base iterator hands out a view of the dataset
  pcIter,                      \* "start", "iterating", "exhausted", "error" (an exception);
                               \* "idle" under Spec
  indcs,                       \* index sequence (0-based values)
  i,                           \* loop variable of the batch loop
  yielded,                     \* history variable: batch_indcs of every yielded batch
  pre,                         \* history variable: the last batch before augmentation
  batch_sample_input,          \* the last batch as yielded
  swap_indcs,
  flip_indcs,
  rotate_indcs

ctlVars == <<pc, patience, multiple, epoch, val_acc, epoch_accuracies,
             best_network_weights_epoch, files, promoted, os_error,
             train_history, best_valid, best_valid_epoch, best_weights,
             num_epochs, dumped, loaded>>
batchVars == <<inputs, inputs0, batchsize, shuffle, view, pcIter, indcs, i,
               yielded, pre, batch_sample_input, swap_indcs, flip_indcs,
               rotate_indcs>>
vars == <<script, ctlVars, batchVars>>

\* --------------------------------------------------------------- helpers
RECURSIVE SeqMax(_)
SeqMax(s) ==                   \* np.max of a non-empty list
  IF Len(s) = 1 THEN s[1]
  ELSE LET m == SeqMax(Tail(s)) IN IF s[1] > m THEN s[1] ELSE m

Inf == MaxMetric + 1           \* np.inf: above every loss

Metrics == 0..MaxMetric

\* ============================================================ controller

\* ---- 2D scripts ----
stop_early_wrong_cmp(curr_val_acc, val_acc_list, pat) ==
  LET n == Len(val_acc_list) IN
  IF n < pat THEN FALSE
  ELSE val_acc_list[n - pat + 1] >= curr_val_acc

stop_early(curr_val_acc, val_acc_list, pat) ==
  LET n == Len(val_acc_list) IN          \* num_epochs = len(val_acc_list)
  IF n < pat THEN FALSE
  ELSE LET prev_acc == val_acc_list[n - pat + 1] IN   \* val_acc_list[num_epochs - patience], 0-based
       prev_acc > curr_val_acc

\* the condition of save_weights
ShouldSave(ep, curr_val_acc, val_acc_list, mult) ==
  (ep % mult = 0) \/ (curr_val_acc > SeqMax(val_acc_list))

\* the file np.savez writes: '../data/train/weights/cnn' + str(epoch) (+ '.npz')
WeightFile(ep) == [name |-> "cnn", epoch |-> ep]

save_weights(ep, curr_val_acc, val_acc_list, mult) ==
  IF ShouldSave(ep, curr_val_acc, val_acc_list, mult)
  THEN files \cup {WeightFile(ep)}
  ELSE files

\* the file the loop renames on halt: '../data/train/weights/2dcnn' + str(best) + '.npz'
BestWeightPath(best) == [name |-> "2dcnn", epoch |-> best]

IsBestEpoch_strict(curr_val_acc, val_acc_list) ==
  curr_val_acc > SeqMax(val_acc_list)

\* `if val_acc >= np.max(epoch_accuracies)` (the list already holds val_acc)
IsBestEpoch(curr_val_acc, val_acc_list) ==
  curr_val_acc >= SeqMax(val_acc_list)

\* One pass of the loop body from the epoch's validation result on.
Epoch2D ==
  /\ script = "2d"
  /\ pc = "training"
  /\ \E acc \in Metrics :
       /\ val_acc' = acc
       /\ IF stop_early(acc, epoch_accuracies, patience)
          THEN \* os.rename(best_weight_path, models path); break
               /\ pc' = "stopped"
               /\ IF BestWeightPath(best_network_weights_epoch) \in files
                  THEN /\ files' = files \ {BestWeightPath(best_network_weights_epoch)}
                       /\ promoted' = promoted \cup {best_network_weights_epoch}
                       /\ os_error' = FALSE
                  ELSE /\ os_error' = TRUE
                       /\ UNCHANGED <<files, promoted>>
               /\ UNCHANGED <<epoch, epoch_accuracies, best_network_weights_epoch>>
          ELSE LET list == Append(epoch_accuracies, acc) IN
               /\ epoch_accuracies' = list
               /\ files' = save_weights(epoch, acc, list, multiple)
               /\ best_network_weights_epoch' =
                    IF IsBestEpoch(acc, list) THEN epoch
                    ELSE best_network_weights_epoch
               /\ IF epoch + 1 < NumEpochs
                  THEN epoch' = epoch + 1 /\ pc' = "training"
                  ELSE epoch' = epoch /\ pc' = "done"
               /\ UNCHANGED <<promoted, os_error>>
  /\ UNCHANGED <<script, patience, multiple>>
  /\ UNCHANGED <<train_history, best_valid, best_valid_epoch, best_weights,
                 num_epochs, dumped, loaded>>
  /\ UNCHANGED batchVars

\* ---- 3D script: EarlyStopping ----
Improves_or_ties(current_valid, best) == current_valid <= best

\* `if current_valid < self.best_valid`
Improves(current_valid, best) == current_valid < best

OutOfPatience_early(best_epoch, pat, current_epoch) ==
  best_epoch + pat <= current_epoch

\* `elif self.best_valid_epoch + self.patience < current_epoch`
OutOfPatience(best_epoch, pat, current_epoch) ==
  best_epoch + pat < current_epoch

GetAllParamsValues_none(current_epoch) == <<>>

\* nn.get_all_params_values(): the parameter values the network holds at the
\* end of the current epoch, identified by that epoch
GetAllParamsValues(current_epoch) == <<current_epoch>>

\* nolearn appends the epoch's record to train_history (epochs are numbered
\* from 1) and calls the on_epoch_finished hook: EarlyStopping.__call__.
EarlyStoppingCall ==
  /\ script = "3d"
  /\ pc = "training"
  /\ \E loss \in Metrics :
       LET current_epoch == Len(train_history) + 1
           current_valid == loss
       IN
       /\ train_history' = Append(train_history,
                                  [epoch |-> current_epoch, valid_loss |-> loss])
       /\ num_epochs' = num_epochs + 1
       /\ dumped' = IF (num_epochs + 1) % DumpEvery = 0
                    THEN dumped \cup {num_epochs + 1} ELSE dumped
       /\ IF Improves(current_valid, best_valid)
          THEN /\ best_valid' = current_valid
               /\ best_valid_epoch' = current_epoch
               /\ best_weights' = GetAllParamsValues(current_epoch)
               /\ loaded' = loaded
               /\ pc' = IF current_epoch < NumEpochs THEN "training" ELSE "done"
          ELSE IF OutOfPatience(best_valid_epoch, patience, current_epoch)
          THEN /\ loaded' = best_weights        \* nn.load_params_from(self.best_weights)
               /\ pc' = "stopped"               \* raise StopIteration()
               /\ UNCHANGED <<best_valid, best_valid_epoch, best_weights>>
          ELSE /\ pc' = IF current_epoch < NumEpochs THEN "training" ELSE "done"
               /\ UNCHANGED <<best_valid, best_valid_epoch, best_weights, loaded>>
  /\ UNCHANGED <<script, patience>>
  /\ UNCHANGED <<multiple, epoch, val_acc, epoch_accuracies,
                 best_network_weights_epoch, files, promoted, os_error>>
  /\ UNCHANGED batchVars

\* ---- initial states ----
ControllerStart ==
  /\ pc = "training"
  /\ epoch = 0
  /\ val_acc = 0
  /\ epoch_accuracies = <<>>
  /\ best_network_weights_epoch = 0
  /\ files = {}
  /\ promoted = {}
  /\ os_error = FALSE
  /\ train_history = <<>>
  /\ best_valid = Inf
  /\ best_valid_epoch = 0
  /\ best_weights = <<>>
  /\ num_epochs = 0
  /\ dumped = {}
  /\ loaded = <<>>

SamplerIdle ==
  /\ inputs = <<>>
  /\ inputs0 = <<>>
  /\ batchsize = 1
  /\ shuffle = FALSE
  /\ view = FALSE
  /\ pcIter = "idle"
  /\ indcs = <<>>
  /\ i = 0
  /\ yielded = <<>>
  /\ pre = <<>>
  /\ batch_sample_input = <<>>
  /\ swap_indcs = <<>>
  /\ flip_indcs = <<>>
  /\ rotate_indcs = <<>>

Init ==
  /\ script \in {"2d", "3d"}
  /\ patience \in 1..MaxPatience
  /\ multiple \in 1..MaxMultiple
  /\ (script = "3d" => multiple = 1)
  /\ ControllerStart
  /\ SamplerIdle

Next == Epoch2D \/ EarlyStoppingCall

Spec == Init /\ [][Next]_vars

\* =============================================================== sampler

\* ---- samples ----
\* A sample is a nested sequence, one level per axis: (channel, height,
\* width) in the 2D scripts, (channel, frames, height, width) in the 3D
\* script.  Pixels are 0 or 1.
Pool2D == << << << <<0, 1>>, <<0, 0>> >> >>,       \* no symmetry
             << << <<1, 1>>, <<0, 0>> >> >> >>     \* left-right symmetric
Pool3D == << << << << <<0, 1>>, <<0, 0>> >>, << <<0, 0>>, <<0, 0>> >> >> >>,   \* no symmetry
             << << << <<1, 0>>, <<1, 0>> >>, << <<0, 0>>, <<0, 0>> >> >> >> >> \* top-bottom symmetric
Pool == IF script = "2d" THEN Pool2D ELSE Pool3D

\* the outcomes of the opaque random_2D_image_generator / random_image_generator:
\* some sample of the same shape, possibly its input
RotOutcomes == {Pool[k] : k \in 1..Len(Pool)}

Reverse(s) == [k \in 1..Len(s) |-> s[Len(s) + 1 - k]]

RECURSIVE ReverseAxis(_, _)
ReverseAxis(s, d) ==           \* s with its d-th axis reversed (1-based)
  IF d = 1 THEN Reverse(s)
  ELSE [k \in 1..Len(s) |-> ReverseAxis(s[k], d - 1)]

\* x[flip_indcs, :, :, ::-1]: axes 1 and 2 of the batch are kept, axis 3 of
\* the batch (the third axis of a sample) is reversed, further axes are kept
FlipSample(s) == ReverseAxis(s, 3)

\* ---- index arithmetic ----
Identity(n) == [k \in 1..n |-> k - 1]                       \* np.arange(n)
Injective(s) == \A a, b \in DOMAIN s : a # b => s[a] # s[b]
Shuffles(n) == {s \in [1..n -> 0..(n - 1)] : Injective(s)}   \* np.random.shuffle
Draws_with_replacement(b, k) == [1..k -> 0..(b - 1)]

\* np.random.choice(b, k, replace=False): k distinct values of 0..b-1, in order
Draws(b, k) == {s \in [1..k -> 0..(b - 1)] : Injective(s)}

NumChanges_all(b) == b

NumChanges(b) == (3 * b) \div 4            \* int(batchsize * .75), b >= 0
DistortsPerCat(k) == k \div 2              \* int(num_changes / 2)

RangeStop_short(n, b) == n - b
RangeStop_full(n, b) == n

RangeStop(n, b) == n - b + 1               \* range(0, num_samps - batchsize + 1, batchsize)
InRange(pos, stop, step) == IF step > 0 THEN pos < stop ELSE pos > stop

Min(a, b) == IF a < b THEN a ELSE b
Range(s) == {s[k] : k \in DOMAIN s}

\* the batch after the flip and rotate writes; rot gives the rotation outcome
\* per rotated position
Augment(batch, flips, rots, rot) ==
  [t \in 1..Len(batch) |->
     IF (t - 1) \in Range(rots) THEN rot[t - 1]
     ELSE IF (t - 1) \in Range(flips) THEN FlipSample(batch[t])
     ELSE batch[t]]

\* ---- iterate_minibatches (2D scripts) ----
\* First resumption of the generator: the prologue up to the range object.
IterStart ==
  /\ script = "2d"
  /\ pcIter = "start"
  /\ LET num_samps == Len(inputs) IN
     /\ indcs' \in (IF shuffle THEN Shuffles(num_samps) ELSE {Identity(num_samps)})
     /\ pcIter' = IF batchsize = 0 THEN "error" ELSE "iterating"   \* range() arg 3 must not be zero
  /\ i' = 0
  /\ UNCHANGED <<inputs, inputs0, batchsize, shuffle, view, yielded, pre,
                 batch_sample_input, swap_indcs, flip_indcs, rotate_indcs>>
  /\ UNCHANGED <<script, ctlVars>>

\* One resumption: the next pass of the loop body up to the yield, or the end.
\* (i is the position of the range iterator; the inner `for i in rotate_indcs`
\* does not move it.)
IterNext ==
  /\ script = "2d"
  /\ pcIter = "iterating"
  /\ LET num_samps == Len(inputs) IN
     IF ~InRange(i, RangeStop(num_samps, batchsize), batchsize)
     THEN /\ pcIter' = "exhausted"
          /\ UNCHANGED <<i, yielded, pre, batch_sample_input, swap_indcs,
                         flip_indcs, rotate_indcs>>
     ELSE LET batch_indcs == SubSeq(indcs, i + 1, Min(i + batchsize, num_samps))
              gathered == [t \in 1..Len(batch_indcs) |-> inputs[batch_indcs[t] + 1]]
              num_changes == NumChanges(batchsize)
              distorts_per_cat == DistortsPerCat(num_changes)
          IN
          \E swap \in Draws(batchsize, num_changes) :
            LET flips == SubSeq(swap, 1, distorts_per_cat)
                rots == SubSeq(swap, distorts_per_cat + 1, 2 * distorts_per_cat)
            IN
            /\ swap_indcs' = swap
            /\ flip_indcs' = flips
            /\ rotate_indcs' = rots
            /\ pre' = gathered
            /\ IF \E q \in Range(flips) \cup Range(rots) : q >= Len(gathered)
               THEN \* IndexError: index out of bounds for the batch
                    /\ pcIter' = "error"
                    /\ UNCHANGED <<i, yielded, batch_sample_input>>
               ELSE /\ \E rot \in [Range(rots) -> RotOutcomes] :
                         batch_sample_input' = Augment(gathered, flips, rots, rot)
                    /\ yielded' = Append(yielded, batch_indcs)
                    /\ i' = i + batchsize
                    /\ pcIter' = "iterating"
  \* inputs[batch_indcs] is advanced indexing: the batch is a copy
  /\ UNCHANGED <<inputs, inputs0, batchsize, shuffle, view, indcs>>
  /\ UNCHANGED <<script, ctlVars>>

\* ---- FlipBatchIterator (3D script) ----
\* The base BatchIterator (nolearn) walks the dataset in windows of batch_size
\* samples, the last one possibly shorter, and passes each window Xb through
\* transform.  It takes Xb by slicing the dataset; `view` says whether the
\* array it hands over shares the dataset's memory.
Transform3D ==
  /\ script = "3d"
  /\ pcIter = "iterating"
  /\ LET n == Len(inputs)
         lo == i * batchsize
         hi == Min(lo + batchsize, n)
     IN
     IF lo >= n
     THEN /\ pcIter' = "exhausted"
          /\ UNCHANGED <<inputs, i, yielded, pre, batch_sample_input, swap_indcs,
                         flip_indcs, rotate_indcs>>
     ELSE LET Xb == SubSeq(inputs, lo + 1, hi)
              bs == Len(Xb)                               \* Xb.shape[0]
              num_changes == NumChanges(bs)
          IN
          \E indices \in Draws(bs, num_changes) :
            LET distorts_per_cat == DistortsPerCat(Len(indices))
                flips == SubSeq(indices, 1, distorts_per_cat)
                rots == SubSeq(indices, distorts_per_cat + 1, 2 * distorts_per_cat)
            IN
            \E rot \in [Range(rots) -> RotOutcomes] :
              LET out == Augment(Xb, flips, rots, rot) IN
              /\ swap_indcs' = indices
              /\ flip_indcs' = flips
              /\ rotate_indcs' = rots
              /\ pre' = Xb
              /\ batch_sample_input' = out
              \* Xb[...] = ... writes in place into the array handed over
              /\ inputs' = IF view
                           THEN [t \in 1..n |->
                                   IF lo < t /\ t <= hi THEN out[t - lo] ELSE inputs[t]]
                           ELSE inputs
              /\ yielded' = Append(yielded, [t \in 1..bs |-> lo + t - 1])
              /\ i' = i + 1
              /\ pcIter' = "iterating"
  /\ UNCHANGED <<inputs0, batchsize, shuffle, view, indcs>>
  /\ UNCHANGED <<script, ctlVars>>

\* ---- initial states ----
\* datasets of n samples of the pool, in rotation from offset off
Dataset(n, off) == [k \in 1..n |-> Pool[((k - 1 + off) % Len(Pool)) + 1]]

ControllerIdle ==
  /\ pc = "idle"
  /\ patience = 1
  /\ multiple = 1
  /\ epoch = 0
  /\ val_acc = 0
  /\ epoch_accuracies = <<>>
  /\ best_network_weights_epoch = 0
  /\ files = {}
  /\ promoted = {}
  /\ os_error = FALSE
  /\ train_history = <<>>
  /\ best_valid = Inf
  /\ best_valid_epoch = 0
  /\ best_weights = <<>>
  /\ num_epochs = 0
  /\ dumped = {}
  /\ loaded = <<>>

InitBatch ==
  /\ script \in {"2d", "3d"}
  /\ ControllerIdle
  /\ \E n \in 0..MaxN, off \in 0..1 :
       /\ inputs = Dataset(n, off)
       /\ inputs0 = inputs
       /\ IF script = "2d"
          THEN /\ batchsize \in (0 - 1)..MaxBatch
               /\ shuffle \in (IF n <= MaxShuffleN THEN BOOLEAN ELSE {FALSE})
               /\ view = FALSE
               /\ pcIter = "start"
          ELSE /\ batchsize \in 1..MaxBatch
               /\ shuffle = FALSE           \* FlipBatchIterator(batch_size=32, shuffle=False)
               /\ view \in BOOLEAN
               /\ pcIter = "iterating"
  /\ indcs = <<>>
  /\ i = 0
  /\ yielded = <<>>
  /\ pre = <<>>
  /\ batch_sample_input = <<>>
  /\ swap_indcs = <<>>
  /\ flip_indcs = <<>>
  /\ rotate_indcs = <<>>

NextBatch == IterStart \/ IterNext \/ Transform3D

SpecBatch == InitBatch /\ [][NextBatch]_vars

\* ================================================= properties: controller

AccAtEpoch(e) == epoch_accuracies[e + 1]       \* accuracy recorded for epoch e (0-based)
CompletedEpochs == 0..(Len(epoch_accuracies) - 1)
LossAtEpoch(e) == train_history[e].valid_loss  \* nolearn numbers epochs from 1
Losses == [k \in 1..Len(train_history) |-> train_history[k].valid_loss]

\* the accuracy of epoch e is at least every earlier one (is_best of the spec)
IsBestSoFar(e) == \A j \in 0..(e - 1) : AccAtEpoch(j) <= AccAtEpoch(e)

\* C1: whenever the 2D training loop halts on stop_early, save_weights has
\* already written a snapshot for best_network_weights_epoch.
C1_BestSnapshotPersistedAtStop ==
  (script = "2d" /\ pc = "stopped") =>
     \E f \in files : f.epoch = best_network_weights_epoch

\* C2: after every completed epoch of the 2D loop, the epoch's weights are
\* persisted if and only if the epoch index is a multiple of the save
\* interval or the epoch's accuracy is the best so far.
C2_SavedIffIntervalOrBest ==
  script = "2d" =>
    \A e \in CompletedEpochs :
       (WeightFile(e) \in files) <=> ((e % multiple = 0) \/ IsBestSoFar(e))

\* the number of consecutive epochs, up to the last one of h, whose loss did
\* not improve on the lowest loss before it
RECURSIVE SeqMin(_)
SeqMin(s) ==
  IF Len(s) = 1 THEN s[1]
  ELSE LET m == SeqMin(Tail(s)) IN IF s[1] < m THEN s[1] ELSE m

RECURSIVE EpochsSinceImprovement(_)
EpochsSinceImprovement(h) ==
  IF Len(h) <= 1 THEN 0
  ELSE LET before == SubSeq(h, 1, Len(h) - 1) IN
       IF h[Len(h)] < SeqMin(before) THEN 0
       ELSE EpochsSinceImprovement(before) + 1

\* C3 (as stated): EarlyStopping signals stop exactly when the count of
\* consecutive epochs without improvement has reached patience.
C3_StopWhenCountReachesPatience ==
  script = "3d" =>
    ((pc = "stopped") <=> (EpochsSinceImprovement(Losses) >= patience))

\* C3 (amended): EarlyStopping signals stop exactly at the first epoch at
\* which the count of consecutive epochs without improvement exceeds
\* patience (it is then patience + 1), and the best epoch is still the
\* epoch of the last improvement.
C3_StopWhenCountExceedsPatience ==
  script = "3d" =>
    /\ (pc = "stopped") <=> (EpochsSinceImprovement(Losses) > patience)
    /\ pc = "stopped" =>
         /\ EpochsSinceImprovement(Losses) = patience + 1
         /\ best_valid_epoch = Len(train_history) - (patience + 1)

\* patience 2, the loss worsens at each epoch after the first: no stop at
\* epochs 1..3, stop at epoch 4, best epoch still 1
C3_Witness ==
  /\ script = "3d" /\ patience = 2 /\ pc = "stopped"
  /\ Len(train_history) = 4
  /\ \A k \in 1..3 : LossAtEpoch(k) < LossAtEpoch(k + 1)
  /\ best_valid_epoch = 1

\* positions (1-based) of the last maximum / first and last minimum of a list
LastArgMax(s) == CHOOSE k \in 1..Len(s) :
  /\ \A j \in 1..Len(s) : s[j] <= s[k]
  /\ \A j \in (k + 1)..Len(s) : s[j] < s[k]
FirstArgMin(s) == CHOOSE k \in 1..Len(s) :
  /\ \A j \in 1..Len(s) : s[j] >= s[k]
  /\ \A j \in 1..(k - 1) : s[j] > s[k]
LastArgMin(s) == CHOOSE k \in 1..Len(s) :
  /\ \A j \in 1..Len(s) : s[j] >= s[k]
  /\ \A j \in (k + 1)..Len(s) : s[j] > s[k]

\* C9 (as stated): in the 2D loops and in EarlyStopping alike, an epoch whose
\* metric equals the best so far becomes the best epoch: the pointer is at
\* the latest epoch holding the best value.
C9_TieMovesPointerEverywhere ==
  /\ (script = "2d" /\ Len(epoch_accuracies) > 0) =>
        best_network_weights_epoch = LastArgMax(epoch_accuracies) - 1
  /\ (script = "3d" /\ Len(train_history) > 0) =>
        best_valid_epoch = train_history[LastArgMin(Losses)].epoch

\* C9 (amended): in the 2D loops a tie with the best accuracy moves the
\* best-epoch pointer to the current epoch; in EarlyStopping a tie with the
\* best loss is no improvement and the pointer stays at the earlier epoch.
C9_TieMovesPointerOnlyIn2D ==
  /\ (script = "2d" /\ Len(epoch_accuracies) > 0) =>
        best_network_weights_epoch = LastArgMax(epoch_accuracies) - 1
  /\ (script = "3d" /\ Len(train_history) > 0) =>
        best_valid_epoch = train_history[FirstArgMin(Losses)].epoch

\* the same metric at the first two epochs of EarlyStopping: pointer stays
C9_Witness ==
  /\ script = "3d"
  /\ Len(train_history) = 2
  /\ LossAtEpoch(1) = LossAtEpoch(2)
  /\ best_valid_epoch = 1

\* C10: the 2D loop halts at an epoch if and only if at least patience
\* epochs are recorded and the accuracy recorded exactly patience epochs
\* before the current epoch is strictly greater than the current accuracy.
C10_FixedLookback ==
  script = "2d" =>
    /\ pc = "stopped" =>
         LET current == Len(epoch_accuracies) IN
         /\ current >= patience
         /\ AccAtEpoch(current - patience) > val_acc
    /\ \A e \in CompletedEpochs :       \* stop_early returned False at epoch e
         ~(e >= patience /\ AccAtEpoch(e - patience) > AccAtEpoch(e))

\* a halt whose lookback is not the first epoch, after an epoch whose
\* lookback value was equal and did not stop training
C10_Witness ==
  /\ script = "2d" /\ pc = "stopped"
  /\ Len(epoch_accuracies) > patience
  /\ \E e \in CompletedEpochs :
        e >= patience /\ AccAtEpoch(e - patience) = AccAtEpoch(e)

\* C11: after every epoch, and at a halt, the best-epoch pointer refers to
\* a recorded epoch whose metric is the maximum of the accuracies recorded
\* so far (2D loop), the minimum of the losses recorded so far (EarlyStopping).
C11_BestPointerAtExtremum ==
  /\ (script = "2d" /\ Len(epoch_accuracies) > 0) =>
        /\ best_network_weights_epoch \in CompletedEpochs
        /\ AccAtEpoch(best_network_weights_epoch) = SeqMax(epoch_accuracies)
  /\ (script = "3d" /\ Len(train_history) > 0) =>
        /\ best_valid_epoch \in 1..Len(train_history)
        /\ LossAtEpoch(best_valid_epoch) = SeqMin(Losses)
        /\ best_valid = SeqMin(Losses)

\* the 2D loop halted with the pointer at a later epoch than the first,
\* which holds more than any other recorded epoch
C11_Witness ==
  /\ script = "2d" /\ pc = "stopped"
  /\ best_network_weights_epoch >= 1
  /\ \A e \in CompletedEpochs \ {best_network_weights_epoch} :
        AccAtEpoch(e) < AccAtEpoch(best_network_weights_epoch)

\* C12: when the 2D loop halts and a snapshot of the best epoch was written
\* by save_weights, the rename finds that snapshot and moves it to the
\* models directory.
C12_RenameFindsSnapshot ==
  (script = "2d" /\ pc = "stopped"
     /\ WeightFile(best_network_weights_epoch) \in files) =>
    (~os_error /\ best_network_weights_epoch \in promoted)

\* ==================================================== properties: sampler

NumSamps == Len(inputs0)
BatchProduced == Len(yielded) > 0 /\ pcIter # "error"
\* how often dataset index idx was gathered into a yielded batch
TimesYielded(idx) ==
  Cardinality({jt \in (1..Len(yielded)) \X (1..MaxBatch + 1) :
                 jt[2] <= Len(yielded[jt[1]]) /\ yielded[jt[1]][jt[2]] = idx})

\* C4: whatever batches have been produced, the caller's dataset array
\* still holds the samples it was passed with.
C4_DatasetUnchanged == inputs = inputs0

\* the horizontal mirror of a sample: its last axis (width) reversed
NumAxes == IF script = "2d" THEN 3 ELSE 4
HorizontalMirror(s) == ReverseAxis(s, NumAxes)

\* C5: every flip-selected sample of a produced batch is the horizontal
\* mirror (width axis reversed, all other axes kept) of the sample gathered.
C5_FlipIsHorizontalMirror ==
  BatchProduced =>
    \A q \in Range(flip_indcs) :
       batch_sample_input[q + 1] = HorizontalMirror(pre[q + 1])

\* C6: with batchsize > 0 dividing the number of samples, iterate_minibatches
\* yields exactly N/b batches which gather every index exactly once, each
\* batch holding the samples of its indices before augmentation; without
\* shuffle batch j holds the indices j*b .. j*b+b-1 in order.
C6_DivisibleCoversAll ==
  (script = "2d" /\ batchsize > 0 /\ NumSamps % batchsize = 0) =>
    /\ pcIter # "error"
    /\ Len(yielded) <= NumSamps \div batchsize
    /\ pcIter = "exhausted" =>
         /\ Len(yielded) = NumSamps \div batchsize
         /\ \A idx \in 0..(NumSamps - 1) : TimesYielded(idx) = 1
    /\ \A idx \in 0..(NumSamps - 1) : TimesYielded(idx) <= 1
    /\ ~shuffle =>
         \A j \in 1..Len(yielded) :
            yielded[j] = [t \in 1..batchsize |-> (j - 1) * batchsize + t - 1]
    /\ Len(yielded) > 0 =>
         pre = [t \in 1..batchsize |-> inputs0[yielded[Len(yielded)][t] + 1]]

\* one call that ran to its end over several batches, in order
C6_Witness ==
  /\ script = "2d" /\ pcIter = "exhausted" /\ ~shuffle
  /\ batchsize = 3 /\ NumSamps = 6
  /\ yielded = << <<0, 1, 2>>, <<3, 4, 5>> >>

\* C7: with N >= b > 0 and b not dividing N, iterate_minibatches raises
\* nothing, yields exactly floor(N/b) batches, all of b samples, and none of
\* them holds one of the last N mod b entries of the index sequence.
C7_RemainderDropped ==
  (script = "2d" /\ batchsize > 0 /\ NumSamps >= batchsize
     /\ NumSamps % batchsize # 0) =>
    /\ pcIter # "error"
    /\ Len(yielded) <= NumSamps \div batchsize
    /\ pcIter = "exhausted" => Len(yielded) = NumSamps \div batchsize
    /\ \A j \in 1..Len(yielded) :
         /\ Len(yielded[j]) = batchsize
         /\ \A t \in 1..Len(yielded[j]) :
              \A tail \in (NumSamps - (NumSamps % batchsize) + 1)..NumSamps :
                 yielded[j][t] # indcs[tail]

\* a shuffled call that ran to its end and left one sample out
C7_Witness ==
  /\ script = "2d" /\ pcIter = "exhausted" /\ shuffle
  /\ batchsize = 2 /\ NumSamps = 3
  /\ Len(yielded) = 1
  /\ indcs # Identity(3)
  /\ TimesYielded(indcs[3]) = 0

\* the positions of the last batch whose content differs from what was gathered
DiffPositions == {t \in 1..Len(pre) : batch_sample_input[t] # pre[t]}
DiffCount == Cardinality(DiffPositions)

\* C8 (as stated): in a batch of b samples between 2*floor(floor(b*0.75)/2)
\* and floor(b*0.75) samples differ from the samples gathered.
C8_DiffCountBetween ==
  BatchProduced =>
    LET b == Len(pre)
        k == (3 * b) \div 4
    IN  2 * (k \div 2) <= DiffCount /\ DiffCount <= k

\* C8 (amended): in a batch of b samples at most floor(b*0.75) samples differ
\* from the samples gathered, all of them among the 2*floor(floor(b*0.75)/2)
\* flip- or rotate-selected positions; a selected sample whose transformation
\* returns it unchanged does not differ, so there is no lower bound above 0.
C8_DiffCountAtMost ==
  BatchProduced =>
    LET b == Len(pre)
        k == (3 * b) \div 4
        selected == Range(flip_indcs) \cup Range(rotate_indcs)
    IN  /\ DiffCount <= k
        /\ Cardinality(selected) = 2 * (k \div 2)
        /\ \A t \in DiffPositions : (t - 1) \in selected

\* a batch with a flipped and a rotated sample, none of which changed
C8_Witness ==
  /\ BatchProduced
  /\ Len(flip_indcs) >= 1 /\ Len(rotate_indcs) >= 1
  /\ DiffCount = 0

\* ------------------------------------------------ batch size out of range

\* C13 (as stated): called with batchsize <= 0 or batchsize greater than the
\* number of samples, iterate_minibatches fails: once resumed it is in error
\* and never ends as an empty sequence.
C13_BadBatchSizeFails ==
  (script = "2d" /\ (batchsize <= 0 \/ batchsize > NumSamps)
     /\ pcIter # "start") =>
    pcIter = "error"

\* C13 (amended): called with batchsize < 0 or batchsize greater than the
\* number of samples, iterate_minibatches raises nothing and ends without
\* yielding a batch; called with batchsize = 0 it raises (the ValueError of
\* range) on its first resumption, before any batch.
C13_BadBatchSizeYieldsNothing ==
  (script = "2d" /\ (batchsize <= 0 \/ batchsize > NumSamps)) =>
    /\ yielded = <<>>
    /\ batchsize = 0 => pcIter \in {"start", "error"}
    /\ batchsize # 0 => pcIter \in {"start", "iterating", "exhausted"}

\* a call with more than the dataset's samples per batch that ended empty
C13_Witness ==
  /\ script = "2d" /\ NumSamps >= 1 /\ batchsize > NumSamps
  /\ pcIter = "exhausted" /\ yielded = <<>>

\* ------------------------------------------------------ drawn positions

AccsOfLosses == [k \in 1..Len(Losses) |-> 0 - Losses[k]]
\* stop_early at epoch e (1-based) of that run, given the epochs before it
LookbackStopsAt(e) ==
  stop_early(AccsOfLosses[e], SubSeq(AccsOfLosses, 1, e - 1), patience)
StrictlyWorsening == \A k \in 1..(Len(Losses) - 1) : Losses[k] < Losses[k + 1]

\* C14 (as stated): on the same metric sequence and patience, stop_early and
\* EarlyStopping signal stop at the same epoch.
C14_SameStopEpoch ==
  script = "3d" =>
    /\ pc = "stopped" =>
         /\ LookbackStopsAt(Len(train_history))
         /\ \A e \in 1..(Len(train_history) - 1) : ~LookbackStopsAt(e)
    /\ pc # "stopped" =>
         \A e \in 1..Len(train_history) : ~LookbackStopsAt(e)

\* C14 (amended): the two policies are not equivalent.  Neither signals stop
\* during the first patience epochs; on a metric that worsens strictly at
\* every epoch stop_early signals stop at the (patience+1)-th epoch and
\* EarlyStopping one epoch later, at the (patience+2)-th.
C14_LookbackStopsOneEpochEarlier ==
  script = "3d" =>
    /\ \A e \in 1..Len(train_history) : LookbackStopsAt(e) => e >= patience + 1
    /\ pc = "stopped" => Len(train_history) >= patience + 2
    /\ StrictlyWorsening =>
         /\ \A e \in 1..Len(train_history) :
               LookbackStopsAt(e) <=> e >= patience + 1
         /\ (pc = "stopped") <=> (Len(train_history) = patience + 2)

\* patience 1, strictly worsening losses: stop_early stops at epoch 2,
\* EarlyStopping at epoch 3
C14_Witness ==
  /\ script = "3d" /\ patience = 1 /\ pc = "stopped"
  /\ StrictlyWorsening
  /\ Len(train_history) = 3
  /\ ~LookbackStopsAt(1) /\ LookbackStopsAt(2)

\* ------------------------------------------------- weights restored on stop

\* C16: when EarlyStopping raises StopIteration, best_weights is not None
\* and holds the parameter values captured at best_valid_epoch, the epoch of
\* the lowest loss seen; these are the values loaded into the network; and
\* the loss of the stopping epoch does not improve strictly on the best
\* before it.  Nothing is loaded unless it stops.
C16_StopRestoresBest ==
  script = "3d" =>
    /\ pc = "stopped" =>
         LET n == Len(train_history) IN
         /\ best_weights # <<>>
         /\ best_weights = <<best_valid_epoch>>
         /\ LossAtEpoch(best_valid_epoch) = SeqMin(Losses)
         /\ loaded = best_weights
         /\ n >= 2
         /\ ~(Losses[n] < SeqMin(SubSeq(Losses, 1, n - 1)))
    /\ pc # "stopped" => loaded = <<>>

\* a stop after the best epoch was not the first one
C16_Witness ==
  /\ script = "3d" /\ pc = "stopped"
  /\ best_valid_epoch = 2
  /\ loaded = <<2>>
  /\ LossAtEpoch(2) < LossAtEpoch(1)

====
